---------------------------- MODULE Spec2Model ----------------------------
(***************************************************************************)
(* Model of src/scrape.py: the player index (load_index, save_index,       *)
(* get_or_create_player_id), the master table (load_database,              *)
(* merge_fieldnames, update_database) and the pipeline main() that runs    *)
(* them over one source file.                                              *)
(*                                                                         *)
(* Text is a sequence of one-character strings (<<"A", "l">> is "Al"), so  *)
(* that normalisation, joining and splitting act on characters as the code *)
(* does.  Column names are atomic strings: the code never looks inside     *)
(* them.  A dict is a sequence of [k, v] entries in insertion order, as    *)
(* Python dicts are.  A file is [exists, header, rows]: the header record  *)
(* and the data records of a csv file, cells by position.                  *)
(***************************************************************************)
EXTENDS Integers, Sequences, FiniteSets, TLC

(***************************************************************************)
(* Bounds of the model.                                                    *)
(***************************************************************************)
MaxRows == 2
MaxRuns == 2
MaxKills == 1
MaxCalls == 3
MaxCols == 3
MaxLong == 3

(***************************************************************************)
(* Python values.                                                          *)
(***************************************************************************)
\* Python's None, as dict.get returns it for a missing key: a value no text equals.
None == <<"None">>

\* Truth value of a text-or-None value: None and "" are falsy.
Truthy(x) == x # None /\ x # <<>>

\* x or y
Or(x, y) == IF Truthy(x) THEN x ELSE y

IsSpace(c) == c = " "

\* str.lower, one character
LowerChar(c) ==
    CASE c = "A" -> "a"
      [] c = "B" -> "b"
      [] c = "X" -> "x"
      [] OTHER -> c

Lower(s) == [i \in 1..Len(s) |-> LowerChar(s[i])]

RECURSIVE LStrip(_)
LStrip(s) == IF s # <<>> /\ IsSpace(Head(s)) THEN LStrip(Tail(s)) ELSE s

RECURSIVE RStrip(_)
RStrip(s) ==
    IF s # <<>> /\ IsSpace(s[Len(s)]) THEN RStrip(SubSeq(s, 1, Len(s) - 1)) ELSE s

\* str.strip()
Strip(s) == RStrip(LStrip(s))

\* the first word of s (s starts with a non-space character)
RECURSIVE TakeWord(_)
TakeWord(s) ==
    IF s = <<>> \/ IsSpace(Head(s)) THEN <<>> ELSE <<Head(s)>> \o TakeWord(Tail(s))

\* str.split(): the words between runs of whitespace
RECURSIVE SplitWs(_)
SplitWs(s) ==
    LET t == LStrip(s) IN
    IF t = <<>> THEN <<>>
    ELSE LET w == TakeWord(t) IN
         <<w>> \o SplitWs(SubSeq(t, Len(w) + 1, Len(t)))

\* sep.join(parts)
RECURSIVE Join(_, _)
Join(sep, parts) ==
    IF parts = <<>> THEN <<>>
    ELSE IF Len(parts) = 1 THEN parts[1]
    ELSE parts[1] \o sep \o Join(sep, Tail(parts))

\* key.split("|", 2): at most two splits, the rest stays in the last part
RECURSIVE SplitPipe(_, _)
SplitPipe(s, maxsplit) ==
    LET hits == {i \in 1..Len(s) : s[i] = "|"} IN
    IF maxsplit = 0 \/ hits = {} THEN <<s>>
    ELSE LET i == CHOOSE j \in hits : \A h \in hits : j <= h IN
         <<SubSeq(s, 1, i - 1)>> \o SplitPipe(SubSeq(s, i + 1, Len(s)), maxsplit - 1)

Digits == <<"0", "1", "2", "3", "4", "5", "6", "7", "8", "9">>

IsDigitChar(c) == \E d \in 1..10 : Digits[d] = c

DigitVal(c) == (CHOOSE d \in 1..10 : Digits[d] = c) - 1

\* str(n) for an int n >= 0
RECURSIVE IntToStr(_)
IntToStr(n) ==
    IF n < 10 THEN <<Digits[n + 1]>>
    ELSE IntToStr(n \div 10) \o <<Digits[(n % 10) + 1]>>

\* str.isdigit()
IsDigit(s) == s # <<>> /\ \A i \in 1..Len(s) : IsDigitChar(s[i])

\* int(s) for a string of digits
RECURSIVE StrToInt(_)
StrToInt(s) ==
    IF Len(s) = 1 THEN DigitVal(s[1])
    ELSE 10 * StrToInt(SubSeq(s, 1, Len(s) - 1)) + DigitVal(s[Len(s)])

(***************************************************************************)
(* Dicts in insertion order.                                               *)
(***************************************************************************)
Keys(d) == [i \in 1..Len(d) |-> d[i].k]

Has(d, k) == \E i \in 1..Len(d) : d[i].k = k

\* d[k], for a key that is there
At(d, k) == d[CHOOSE i \in 1..Len(d) : d[i].k = k].v

\* d.get(k)
Get(d, k) == IF Has(d, k) THEN At(d, k) ELSE None

\* d[k] = v: a present key keeps its place, a new key goes last
Put(d, k, v) ==
    IF Has(d, k)
    THEN [i \in 1..Len(d) |-> IF d[i].k = k THEN [k |-> k, v |-> v] ELSE d[i]]
    ELSE Append(d, [k |-> k, v |-> v])

\* d.update(e)
RECURSIVE Update(_, _)
Update(d, e) == IF e = <<>> THEN d ELSE Update(Put(d, Head(e).k, Head(e).v), Tail(e))

\* d.setdefault(k, v)
SetDefault(d, k, v) == IF Has(d, k) THEN d ELSE Put(d, k, v)

InSeq(x, s) == \E i \in 1..Len(s) : s[i] = x


(***************************************************************************)
(* sorted(): a stable sort on keys that are all ints or all text.  Python  *)
(* raises TypeError when an int key meets a text key.                      *)
(***************************************************************************)
\* the characters of the model in code-point order
Alphabet ==
    <<" ", "0", "1", "2", "3", "4", "5", "6", "7", "8", "9",
      "A", "B", "X", "a", "b", "x", "|">>

CharOrd(c) == CHOOSE i \in 1..Len(Alphabet) : Alphabet[i] = c

\* s < t on text
RECURSIVE StrLess(_, _)
StrLess(s, t) ==
    IF t = <<>> THEN FALSE
    ELSE IF s = <<>> THEN TRUE
    ELSE IF Head(s) = Head(t) THEN StrLess(Tail(s), Tail(t))
    ELSE CharOrd(Head(s)) < CharOrd(Head(t))

IntKey(n) == [isInt |-> TRUE, n |-> n, s |-> <<>>]

StrKey(s) == [isInt |-> FALSE, n |-> 0, s |-> s]

\* a < b on two sort keys of the same type
KeyLess(a, b) == IF a.isInt THEN a.n < b.n ELSE StrLess(a.s, b.s)

\* some comparison of the sort meets an int and a text key
MixedKeys(keyed) ==
    \E i, j \in 1..Len(keyed) : keyed[i].sk.isInt /\ ~keyed[j].sk.isInt

RECURSIVE InsertSorted(_, _)
InsertSorted(x, s) ==
    IF s = <<>> THEN <<x>>
    ELSE IF KeyLess(x.sk, Head(s).sk) THEN <<x>> \o s
    ELSE <<Head(s)>> \o InsertSorted(x, Tail(s))

\* keyed is a sequence of [sk, item]; equal keys keep their order
RECURSIVE StableSort(_)
StableSort(keyed) ==
    IF keyed = <<>> THEN <<>>
    ELSE InsertSorted(keyed[Len(keyed)], StableSort(SubSeq(keyed, 1, Len(keyed) - 1)))

(***************************************************************************)
(* csv.DictReader and csv.DictWriter.                                      *)
(***************************************************************************)
NoFile == [exists |-> FALSE, header |-> <<>>, rows |-> <<>>]

\* open(path, "w"): the file exists and is empty
Truncated == [exists |-> TRUE, header |-> <<>>, rows |-> <<>>]

\* DictReader: one dict per data record, keyed by the header; a short record
\* gets None (restval) for the cells it lacks
ReadDicts(f) ==
    [i \in 1..Len(f.rows) |->
        [j \in 1..Len(f.header) |->
            [k |-> f.header[j],
             v |-> IF j <= Len(f.rows[i]) THEN f.rows[i][j] ELSE None]]]

\* DictWriter._dict_to_list: the cells of one row; a missing key or a None
\* value is written as the empty string
ToCells(row, fieldnames) ==
    [j \in 1..Len(fieldnames) |->
        LET v == Get(row, fieldnames[j]) IN IF v = None THEN <<>> ELSE v]

\* DictWriter raises ValueError for a row with a key outside fieldnames
ExtraKeys(row, fieldnames) == \E i \in 1..Len(row) : ~InSeq(row[i].k, fieldnames)

\* number of rows written before the first row DictWriter refuses
RECURSIVE GoodPrefix(_, _)
GoodPrefix(rows, fieldnames) ==
    IF rows = <<>> \/ ExtraKeys(Head(rows), fieldnames) THEN 0
    ELSE 1 + GoodPrefix(Tail(rows), fieldnames)

\* writeheader() then writerows(rows) on a file opened with "w"
DictWrite(rows, fieldnames) ==
    LET n == GoodPrefix(rows, fieldnames) IN
    [ok   |-> n = Len(rows),
     file |-> [exists |-> TRUE,
               header |-> fieldnames,
               rows   |-> [i \in 1..n |-> ToCells(rows[i], fieldnames)]]]

(***************************************************************************)
(* helpers of scrape.py                                                    *)
(***************************************************************************)
\* a normalize that trims and lower-cases but keeps the runs of whitespace
normalize_keeps_runs(s) == IF ~Truthy(s) THEN <<>> ELSE Lower(Strip(s))

normalize(s) ==
    IF ~Truthy(s) THEN <<>> ELSE Join(<<" ">>, SplitWs(Lower(Strip(s))))

\* a make_key for which a missing birth year matches any birth year
make_key_year_wildcard(name, birth_year, team) ==
    Join(<<"|">>, <<normalize(name), <<>>, normalize(Or(team, <<>>))>>)

\* birth_year is text whenever it comes from a csv or html row, so str() keeps it
make_key(name, birth_year, team) ==
    Join(<<"|">>,
         <<normalize(name), Strip(Or(birth_year, <<>>)), normalize(Or(team, <<>>))>>)

IndexHeader == <<"player_id", "key", "norm_name", "birth_year", "norm_team">>

\* int(x) returns: x is text that, whitespace around it apart, is all digits
\* (the characters of the model hold no sign and no underscore)
IntParses(x) == x # None /\ IsDigit(Strip(x))

\* int(x) for such a text
ParseInt(x) == StrToInt(Strip(x))

\* a loop of load_index that passes over the records it cannot read
RECURSIVE LoadIndexRowsSkipBad(_, _, _)
LoadIndexRowsSkipBad(rows, mapping, max_id) ==
    IF rows = <<>> THEN [ok |-> TRUE, mapping |-> mapping, max_id |-> max_id]
    ELSE LET row == Head(rows)
             txt == Get(row, "player_id")
         IN IF ~Has(row, "player_id") \/ ~Has(row, "key") \/ ~IntParses(txt)
            THEN LoadIndexRowsSkipBad(Tail(rows), mapping, max_id)
            ELSE LET pid == ParseInt(txt) IN
                 LoadIndexRowsSkipBad(Tail(rows), Put(mapping, At(row, "key"), pid),
                                      IF pid > max_id THEN pid ELSE max_id)

\* the loop of load_index over the records of the file; ok is FALSE when
\* row["player_id"], row["key"] or int() raises
RECURSIVE LoadIndexRows(_, _, _)
LoadIndexRows(rows, mapping, max_id) ==
    IF rows = <<>> THEN [ok |-> TRUE, mapping |-> mapping, max_id |-> max_id]
    ELSE LET row == Head(rows)
             txt == Get(row, "player_id")
         IN IF ~Has(row, "player_id") \/ ~Has(row, "key") \/ ~IntParses(txt)
            THEN [ok |-> FALSE, mapping |-> mapping, max_id |-> max_id]
            ELSE LET pid == ParseInt(txt) IN
                 LoadIndexRows(Tail(rows), Put(mapping, At(row, "key"), pid),
                               IF pid > max_id THEN pid ELSE max_id)

\* a load_index that reads the counter and forgets the keys
load_index_fresh(f) ==
    IF f.exists
    THEN [LoadIndexRows(ReadDicts(f), <<>>, 0) EXCEPT !.mapping = <<>>]
    ELSE [ok |-> TRUE, mapping |-> <<>>, max_id |-> 0]

\* a load_index that reads the keys and forgets the counter
load_index_no_max(f) ==
    IF f.exists
    THEN [LoadIndexRows(ReadDicts(f), <<>>, 0) EXCEPT !.max_id = 0]
    ELSE [ok |-> TRUE, mapping |-> <<>>, max_id |-> 0]

load_index(f) ==
    IF f.exists THEN LoadIndexRows(ReadDicts(f), <<>>, 0)
    ELSE [ok |-> TRUE, mapping |-> <<>>, max_id |-> 0]

\* a save_index that writes the highest identifier first
save_index_newest_first(mapping) ==
    LET sorted == StableSort([i \in 1..Len(mapping) |->
                              [sk |-> IntKey(0 - mapping[i].v), item |-> mapping[i]]])
        parts(i) == SplitPipe(sorted[i].item.k, 2)
    IN [ok   |-> \A i \in 1..Len(sorted) : Len(parts(i)) = 3,
        file |-> [exists |-> TRUE,
                  header |-> IndexHeader,
                  rows   |-> [i \in 1..Len(sorted) |->
                                 <<IntToStr(sorted[i].item.v), sorted[i].item.k,
                                   parts(i)[1], parts(i)[2], parts(i)[3]>>]]]

\* the rows save_index builds, sorted by player_id; ok is FALSE when a key
\* does not split into three parts (the unpacking raises before the file is opened)
save_index(mapping) ==
    LET sorted == StableSort([i \in 1..Len(mapping) |->
                              [sk |-> IntKey(mapping[i].v), item |-> mapping[i]]])
        parts(i) == SplitPipe(sorted[i].item.k, 2)
        ok == \A i \in 1..Len(sorted) : Len(parts(i)) = 3
    IN [ok   |-> ok,
        file |-> [exists |-> TRUE,
                  header |-> IndexHeader,
                  rows   |-> IF ok
                             THEN [i \in 1..Len(sorted) |->
                                      <<IntToStr(sorted[i].item.v), sorted[i].item.k,
                                        parts(i)[1], parts(i)[2], parts(i)[3]>>]
                             ELSE <<>>]]

\* a counter that skips a number
NewIdSkip(max_id) == max_id + 2

NewId(max_id) == max_id + 1

\* a get_or_create_player_id whose counter counts every named row
get_or_create_counts_all(row, mapping, max_id) ==
    LET name == Or(Get(row, "player"), Get(row, "player_name"))
        key == make_key(name, Get(row, "birth_year"), Get(row, "team"))
    IN IF ~Truthy(name)
       THEN [none |-> TRUE, pid |-> 0, mapping |-> mapping, max_id |-> max_id]
       ELSE IF Has(mapping, key)
            THEN [none |-> FALSE, pid |-> At(mapping, key),
                  mapping |-> mapping, max_id |-> max_id + 1]
            ELSE [none |-> FALSE, pid |-> max_id + 1,
                  mapping |-> Put(mapping, key, max_id + 1), max_id |-> max_id + 1]

\* a get_or_create_player_id that never looks the key up
get_or_create_always_new(row, mapping, max_id) ==
    LET name == Or(Get(row, "player"), Get(row, "player_name"))
        key == make_key(name, Get(row, "birth_year"), Get(row, "team"))
    IN IF ~Truthy(name)
       THEN [none |-> TRUE, pid |-> 0, mapping |-> mapping, max_id |-> max_id]
       ELSE [none |-> FALSE, pid |-> max_id + 1,
             mapping |-> Put(mapping, key, max_id + 1), max_id |-> max_id + 1]

\* a get_or_create_player_id that hands out the next number and leaves the counter
get_or_create_stale_counter(row, mapping, max_id) ==
    LET name == Or(Get(row, "player"), Get(row, "player_name"))
        key == make_key(name, Get(row, "birth_year"), Get(row, "team"))
    IN IF ~Truthy(name)
       THEN [none |-> TRUE, pid |-> 0, mapping |-> mapping, max_id |-> max_id]
       ELSE IF Has(mapping, key)
            THEN [none |-> FALSE, pid |-> At(mapping, key),
                  mapping |-> mapping, max_id |-> max_id]
            ELSE [none |-> FALSE, pid |-> max_id + 1,
                  mapping |-> Put(mapping, key, max_id + 1), max_id |-> max_id]

\* a get_or_create_player_id that does not keep the key it gave a number to
get_or_create_forgets(row, mapping, max_id) ==
    LET name == Or(Get(row, "player"), Get(row, "player_name"))
        key == make_key(name, Get(row, "birth_year"), Get(row, "team"))
    IN IF ~Truthy(name)
       THEN [none |-> TRUE, pid |-> 0, mapping |-> mapping, max_id |-> max_id]
       ELSE IF Has(mapping, key)
            THEN [none |-> FALSE, pid |-> At(mapping, key),
                  mapping |-> mapping, max_id |-> max_id]
            ELSE [none |-> FALSE, pid |-> max_id + 1,
                  mapping |-> mapping, max_id |-> max_id + 1]

\* none is TRUE for a return of None
get_or_create_player_id(row, mapping, max_id) ==
    LET name == Or(Get(row, "player"), Get(row, "player_name"))
        birth_year == Get(row, "birth_year")
        team == Get(row, "team")
    IN IF ~Truthy(name)
       THEN [none |-> TRUE, pid |-> 0, mapping |-> mapping, max_id |-> max_id]
       ELSE LET key == make_key(name, birth_year, team) IN
            IF Has(mapping, key)
            THEN [none |-> FALSE, pid |-> At(mapping, key),
                  mapping |-> mapping, max_id |-> max_id]
            ELSE [none |-> FALSE, pid |-> NewId(max_id),
                  mapping |-> Put(mapping, key, NewId(max_id)),
                  max_id |-> NewId(max_id)]

\* the loop of main over the rows, from row n on
RECURSIVE ResolveAll(_, _, _, _)
ResolveAll(rs, n, m, mx) ==
    IF n > Len(rs) THEN [rows |-> rs, mapping |-> m, max_id |-> mx]
    ELSE LET r == get_or_create_player_id(rs[n], m, mx) IN
         ResolveAll(IF r.none THEN rs
                    ELSE [rs EXCEPT ![n] = Put(@, "player_id", IntToStr(r.pid))],
                    n + 1, r.mapping, r.max_id)

rows_from_csv(f) == [rows |-> ReadDicts(f), fieldnames |-> f.header]

\* fields, then every key of keys that is not yet in it
RECURSIVE AddNew(_, _)
AddNew(fields, keys) ==
    IF keys = <<>> THEN fields
    ELSE AddNew(IF InSeq(Head(keys), fields) THEN fields ELSE Append(fields, Head(keys)),
                Tail(keys))

RECURSIVE AddRowKeys(_, _)
AddRowKeys(fields, rows) ==
    IF rows = <<>> THEN fields
    ELSE AddRowKeys(AddNew(fields, Keys(Head(rows))), Tail(rows))

build_fieldnames(existing_fieldnames, rows) ==
    LET fieldnames == AddRowKeys(existing_fieldnames, rows) IN
    IF InSeq("player_id", fieldnames) THEN fieldnames ELSE <<"player_id">> \o fieldnames

write_csv(rows, fieldnames) == DictWrite(rows, fieldnames)

\* the loop of load_database: rows without a player_id are passed over
RECURSIVE LoadDbRows(_, _)
LoadDbRows(rows, acc) ==
    IF rows = <<>> THEN acc
    ELSE LET pid == Get(Head(rows), "player_id") IN
         LoadDbRows(Tail(rows), IF ~Truthy(pid) THEN acc ELSE Put(acc, pid, Head(rows)))

load_database(f) ==
    IF ~f.exists THEN [rows |-> <<>>, fieldnames |-> <<"player_id">>]
    ELSE [rows |-> LoadDbRows(ReadDicts(f), <<>>),
          fieldnames |-> IF f.header # <<>> THEN f.header ELSE <<"player_id">>]

SelectSeqNe(s, x) == SelectSeq(s, LAMBDA f : f # x)

\* field_list or []: None and the empty list give the empty list
OrEmpty(field_list) == IF field_list = None THEN <<>> ELSE field_list

\* a merge_fieldnames that leaves player_id where it first occurred
merge_fieldnames_id_in_place(existing, incoming) ==
    LET merged == AddNew(AddNew(<<>>, OrEmpty(existing)), OrEmpty(incoming)) IN
    IF ~InSeq("player_id", merged) THEN <<"player_id">> \o merged ELSE merged

\* a merge_fieldnames that lists the columns seen last first
merge_fieldnames_newest_first(existing, incoming) ==
    LET merged == AddNew(AddNew(<<>>, OrEmpty(existing)), OrEmpty(incoming))
        others == SelectSeqNe(merged, "player_id")
    IN <<"player_id">> \o [p \in 1..Len(others) |-> others[Len(others) + 1 - p]]

\* a merge_fieldnames that forgets the columns of the table
merge_fieldnames_incoming_only(existing, incoming) ==
    <<"player_id">> \o SelectSeqNe(AddNew(<<>>, incoming), "player_id")

\* a merge_fieldnames that adds the incoming columns without looking for them
merge_fieldnames_no_dedup(existing, incoming) ==
    <<"player_id">> \o SelectSeqNe(existing \o incoming, "player_id")

merge_fieldnames(existing, incoming) ==
    LET merged == AddNew(AddNew(<<>>, OrEmpty(existing)), OrEmpty(incoming)) IN
    IF ~InSeq("player_id", merged) THEN <<"player_id">> \o merged
    ELSE <<"player_id">> \o SelectSeqNe(merged, "player_id")

\* a merge loop that stores every incoming row as a row of its own
RECURSIVE MergeRowsAppend(_, _)
MergeRowsAppend(db_rows, incoming_rows) ==
    IF incoming_rows = <<>> THEN db_rows
    ELSE LET row == Head(incoming_rows)
             pid == Get(row, "player_id")
         IN IF pid = None THEN MergeRowsAppend(db_rows, Tail(incoming_rows))
            ELSE MergeRowsAppend(Append(db_rows, [k |-> pid, v |-> row]),
                                 Tail(incoming_rows))

\* the merge loop of update_database
RECURSIVE MergeRows(_, _)
MergeRows(db_rows, incoming_rows) ==
    IF incoming_rows = <<>> THEN db_rows
    ELSE LET row == Head(incoming_rows)
             pid == Get(row, "player_id")
         IN IF pid = None THEN MergeRows(db_rows, Tail(incoming_rows))
            ELSE LET existing == IF Has(db_rows, pid) THEN At(db_rows, pid)
                                 ELSE <<[k |-> "player_id", v |-> pid]>>
                 IN MergeRows(Put(db_rows, pid, Update(existing, row)),
                              Tail(incoming_rows))

\* a backfill with "0" for the empty string
RECURSIVE FillRowZero(_, _)
FillRowZero(row, fieldnames) ==
    IF fieldnames = <<>> THEN row
    ELSE FillRowZero(SetDefault(row, Head(fieldnames), <<"0">>), Tail(fieldnames))

RECURSIVE FillRow(_, _)
FillRow(row, fieldnames) ==
    IF fieldnames = <<>> THEN row
    ELSE FillRow(SetDefault(row, Head(fieldnames), <<>>), Tail(fieldnames))

SortKey(x) == IF IsDigit(x) THEN IntKey(StrToInt(x)) ELSE StrKey(x)

\* update_database up to the point where it opens the table for writing:
\* raised is TRUE when sorted() raises TypeError
update_database(db, incoming_rows, incoming_fields) ==
    LET loaded == load_database(db)
        fieldnames == merge_fieldnames(loaded.fieldnames, incoming_fields)
        db_rows == MergeRows(loaded.rows, incoming_rows)
        keyed == [i \in 1..Len(db_rows) |->
                     [sk |-> SortKey(db_rows[i].k), item |-> db_rows[i].v]]
        raised == MixedKeys(keyed)
        sorted == IF raised THEN <<>> ELSE StableSort(keyed)
    IN [raised |-> raised,
        fieldnames |-> fieldnames,
        ordered_rows |-> [i \in 1..Len(sorted) |-> FillRow(sorted[i].item, fieldnames)]]


(***************************************************************************)
(* The source rows of the model: what the row extractor yields for a page. *)
(***************************************************************************)
Cell(k, v) == [k |-> k, v |-> v]

\* a named player
RowA == <<Cell("player", <<"A">>), Cell("birth_year", <<"9">>),
          Cell("team", <<"X">>), Cell("goals", <<"3">>)>>

\* the same player in another spelling, with one more column
RowA2 == <<Cell("player", <<" ", "a">>), Cell("birth_year", <<"9">>),
           Cell("team", <<"x", " ">>), Cell("goals", <<"4">>),
           Cell("assists", <<"1">>)>>

\* another player, named by the player_name column, no birth year and no team
RowB == <<Cell("player_name", <<"B">>), Cell("goals", <<"3">>)>>

\* a row without a usable name
RowNameless == <<Cell("player", <<>>), Cell("goals", <<"5">>)>>

SourceRows == {RowA, RowA2, RowB, RowNameless}

Batches(lo) == UNION {[1..n -> SourceRows] : n \in lo..MaxRows}

(***************************************************************************)
(* Source rows for the key: spellings of one player, missing, empty and    *)
(* blank birth years, and cells that hold the delimiter.                   *)
(***************************************************************************)
KeyPadYear == <<Cell("player", <<"A">>), Cell("birth_year", <<" ", "9">>),
                Cell("team", <<"X">>)>>

KeyNoYear == <<Cell("player", <<"A">>), Cell("team", <<"X">>)>>

KeyEmptyYear == <<Cell("player", <<"A">>), Cell("birth_year", <<>>),
                  Cell("team", <<"X">>)>>

KeyBlankYear == <<Cell("player", <<"A">>), Cell("birth_year", <<" ">>),
                  Cell("team", <<"X">>)>>

KeyTwoWords == <<Cell("player", <<"A", " ", " ", "B">>), Cell("team", <<"X">>)>>

KeyTwoWords2 == <<Cell("player", <<" ", "a", " ", "b", " ">>), Cell("team", <<"x">>)>>

KeyOneWord == <<Cell("player", <<"A", "B">>), Cell("team", <<"X">>)>>

KeyPipeTeam == <<Cell("player", <<"A">>), Cell("birth_year", <<"9">>),
                 Cell("team", <<"|", "X">>)>>

KeyPipeName == <<Cell("player", <<"A", "|", "9">>), Cell("team", <<"X">>)>>

\* a name with a blank before the delimiter
KeyPipeSpace == <<Cell("player", <<"A", " ", "|", "B">>), Cell("team", <<"X">>)>>

KeyRows ==
    {RowA, RowA2, KeyPadYear, KeyNoYear, KeyEmptyYear, KeyBlankYear,
     KeyTwoWords, KeyTwoWords2, KeyOneWord, KeyPipeTeam, KeyPipeName, KeyPipeSpace}

KeyBatches == [1..MaxRows -> KeyRows]

(***************************************************************************)
(* Incoming rows for update_database, as main() hands them over: a named   *)
(* row carries the identifier of its key, a nameless row of a page carries *)
(* none, a nameless row read back from an exported csv carries the empty   *)
(* identifier.                                                             *)
(***************************************************************************)
DbA == Put(RowA, "player_id", <<"1">>)

DbA2 == Put(RowA2, "player_id", <<"1">>)

DbB == Put(RowB, "player_id", <<"2">>)

DbBlankId == <<Cell("player_id", <<>>), Cell("player", <<>>), Cell("goals", <<"5">>)>>

DbBlankId2 == <<Cell("player_id", <<>>), Cell("player", <<>>), Cell("assists", <<"1">>)>>

\* a nameless row of a csv that came with an identifier of its own, no number
DbX == <<Cell("player_id", <<"x">>), Cell("player", <<>>), Cell("goals", <<"5">>)>>

DbRows == {DbA, DbA2, DbB, RowNameless, DbBlankId, DbBlankId2, DbX}

DbBatches == UNION {[1..n -> DbRows] : n \in 1..MaxRows}

(***************************************************************************)
(* Source rows of a longer batch: rows that come with a player_id of their *)
(* own, as the rows of a csv with a player_id column do, and a row whose   *)
(* name is a blank.                                                        *)
(***************************************************************************)
\* the player of RowA, carrying an identifier the index never gave
RowCarried == <<Cell("player_id", <<"7">>), Cell("player", <<"A">>),
                Cell("birth_year", <<"9">>), Cell("team", <<"X">>), Cell("goals", <<"3">>)>>

\* a nameless row carrying an identifier
NamelessCarried == <<Cell("player_id", <<"7">>), Cell("player", <<>>),
                     Cell("goals", <<"5">>)>>

\* a row whose name is one blank
RowBlankName == <<Cell("player", <<" ">>), Cell("goals", <<"5">>)>>

LongRows == {RowA, RowA2, RowB, RowNameless, RowCarried, NamelessCarried, RowBlankName}

LongBatches == [1..MaxLong -> LongRows]

(***************************************************************************)
(* State.                                                                  *)
(***************************************************************************)
VARIABLES
    indexFile,      \* the player index csv
    dbFile,         \* the master database csv
    htmlFile,       \* data.html: [exists, rows], the rows the page holds
    csvFile,        \* data.csv: a csv source, and the export of data.html
    staged,         \* the source that arrived since the last run: "none", "html", "csv"
    runs,           \* runs started so far, replays of an interrupted run apart
    kills,          \* runs interrupted so far
    pc,             \* where main() is; "idle" between runs
    source,         \* args.source_path: "html" or "csv"
    skip,           \* args.skip_source_export
    rows,           \* main's rows
    base_headers,   \* main's base_headers
    mapping,        \* main's mapping
    max_id,         \* main's max_id_ref[0]
    i,              \* index of the row the resolution loop is at
    fieldnames,     \* main's fieldnames
    pending,        \* what the file open for writing is being given
    outcome,        \* how the run ended, "running" until then
    ids,            \* history: what get_or_create_player_id returned per row (0: None)
    rows0,          \* history: the rows as read from the source
    idx0,           \* history: the index file when the run started
    db0,            \* history: the database file when the run started
    rerun,          \* history: this run has the arguments and the source of the last one
    savedIdx,       \* history: the index file as the last finished save_index left it
    prev,           \* history: the run before this one
    mfcall,         \* merge_fieldnames called by itself: its arguments and what it returned
    peer            \* a second invocation of main() on the same index and table files

files == <<indexFile, dbFile, htmlFile, csvFile>>
locals == <<source, skip, rows, base_headers, mapping, max_id, i, fieldnames, pending>>
history == <<ids, rows0, idx0, db0, rerun>>
vars == <<files, staged, runs, kills, pc, locals, outcome, history, savedIdx, prev,
          mfcall, peer>>

NoPending == [ok |-> TRUE, file |-> NoFile]

NoPrev == [outcome |-> "none", killedAt |-> "none", source |-> "none", skip |-> FALSE,
           rows0 |-> <<>>, ids |-> <<>>, mapping |-> <<>>, max_id |-> 0, idx0 |-> NoFile]

\* no process: nothing of main() is in memory
NoRun ==
    /\ source' = "none"
    /\ skip' = FALSE
    /\ rows' = <<>>
    /\ base_headers' = <<>>
    /\ mapping' = <<>>
    /\ max_id' = 0
    /\ i' = 0
    /\ fieldnames' = <<>>
    /\ pending' = NoPending
    /\ ids' = <<>>
    /\ rows0' = <<>>
    /\ idx0' = NoFile
    /\ db0' = NoFile
    /\ rerun' = FALSE

\* the state of the pipeline before its first run
InitMain ==
    /\ indexFile = NoFile
    /\ dbFile = NoFile
    /\ htmlFile = [exists |-> FALSE, rows |-> <<>>]
    /\ csvFile = NoFile
    /\ staged = "none"
    /\ runs = 0
    /\ kills = 0
    /\ pc = "idle"
    /\ source = "none"
    /\ skip = FALSE
    /\ rows = <<>>
    /\ base_headers = <<>>
    /\ mapping = <<>>
    /\ max_id = 0
    /\ i = 0
    /\ fieldnames = <<>>
    /\ pending = NoPending
    /\ outcome = "none"
    /\ ids = <<>>
    /\ rows0 = <<>>
    /\ idx0 = NoFile
    /\ db0 = NoFile
    /\ rerun = FALSE
    /\ savedIdx = NoFile
    /\ prev = NoPrev

\* merge_fieldnames has not been called by itself
NoCall == [step |-> 0, existing |-> <<>>, incoming |-> <<>>, merged |-> <<>>, again |-> <<>>]

\* no second invocation
NoPeer == [pc |-> "none", rows |-> <<>>, mapping |-> <<>>, max_id |-> 0,
           early |-> FALSE, late |-> FALSE, last |-> FALSE, saved |-> NoFile]

Init == InitMain /\ mfcall = NoCall /\ peer = NoPeer

(***************************************************************************)
(* The environment: a new page, or a new csv written by src/main.py, for   *)
(* the next run.  An interrupted run is replayed before anything new       *)
(* arrives.                                                                *)
(***************************************************************************)
ScrapeHtml(batch) ==
    /\ pc = "idle" /\ staged = "none" /\ runs < MaxRuns /\ prev.outcome # "killed"
    /\ htmlFile' = [exists |-> TRUE, rows |-> batch]
    /\ staged' = "html"
    /\ UNCHANGED <<mfcall, peer, indexFile, dbFile, csvFile, runs, kills, pc, locals, outcome, history,
                   savedIdx, prev>>

\* main.py: the columns in order of first appearance, then the rows
ScrapeCsv(batch) ==
    /\ pc = "idle" /\ staged = "none" /\ runs < MaxRuns /\ prev.outcome # "killed"
    /\ csvFile' = DictWrite(batch, AddRowKeys(<<>>, batch)).file
    /\ staged' = "csv"
    /\ UNCHANGED <<mfcall, peer, indexFile, dbFile, htmlFile, runs, kills, pc, locals, outcome, history,
                   savedIdx, prev>>

(***************************************************************************)
(* main(), one action per step between two points where it can be          *)
(* interrupted.  Opening a file with "w" empties it; the records reach it  *)
(* in a later step.                                                        *)
(***************************************************************************)
\* the row extractor: cell.get_text(" ", strip=True) trims the text of a cell;
\* empty rows are dropped
rows_from_html(f) ==
    SelectSeq([j \in 1..Len(f.rows) |->
                  [c \in 1..Len(f.rows[j]) |->
                      [k |-> f.rows[j][c].k, v |-> Strip(f.rows[j][c].v)]]],
              LAMBDA r : r # <<>>)

\* parse_args, the existence check, reading the rows, the "no rows" return
MainStart(src, sk) ==
    /\ pc = "idle" /\ staged \in {"none", src}
    /\ IF prev.outcome = "killed"
       THEN src = prev.source /\ sk = prev.skip /\ runs' = runs
       ELSE runs < MaxRuns /\ runs' = runs + 1
    /\ LET exists == IF src = "html" THEN htmlFile.exists ELSE csvFile.exists
           read == IF src = "html"
                   THEN [rows |-> rows_from_html(htmlFile), fieldnames |-> <<>>]
                   ELSE rows_from_csv(csvFile)
           got == IF exists THEN read ELSE [rows |-> <<>>, fieldnames |-> <<>>]
       IN /\ rows' = got.rows
          /\ rows0' = got.rows
          /\ base_headers' = got.fieldnames
          /\ outcome' = IF ~exists THEN "not_found"
                        ELSE IF got.rows = <<>> THEN "no_rows" ELSE "running"
          /\ pc' = IF exists /\ got.rows # <<>> THEN "load_index" ELSE "exit"
    /\ source' = src
    /\ skip' = sk
    /\ staged' = "none"
    /\ idx0' = indexFile
    /\ db0' = dbFile
    /\ rerun' = (staged = "none" /\ src = prev.source /\ sk = prev.skip)
    /\ UNCHANGED <<mfcall, peer, files, kills, mapping, max_id, i, fieldnames, pending, ids,
                   savedIdx, prev>>

\* a main that, finding no index file, goes on counting after the rows of the table
MainLoadIndexDbCounter ==
    /\ pc = "load_index"
    /\ LET r == load_index(indexFile) IN
       /\ mapping' = r.mapping
       /\ max_id' = IF indexFile.exists THEN r.max_id ELSE Len(dbFile.rows)
       /\ pc' = IF r.ok THEN "resolve" ELSE "exit"
       /\ outcome' = IF r.ok THEN outcome ELSE "raised"
    /\ i' = 1
    /\ UNCHANGED <<mfcall, peer, files, staged, runs, kills, source, skip, rows, base_headers, fieldnames,
                   pending, history, savedIdx, prev>>

\* mapping, max_id = load_index(index_path)
MainLoadIndex ==
    /\ pc = "load_index"
    /\ LET r == load_index(indexFile) IN
       /\ mapping' = r.mapping
       /\ max_id' = r.max_id
       /\ pc' = IF r.ok THEN "resolve" ELSE "exit"
       /\ outcome' = IF r.ok THEN outcome ELSE "raised"
    /\ i' = 1
    /\ UNCHANGED <<mfcall, peer, files, staged, runs, kills, source, skip, rows, base_headers, fieldnames,
                   pending, history, savedIdx, prev>>

\* a loop that keeps the player_id a row came with
MainResolveKeepsCarried ==
    /\ pc = "resolve"
    /\ LET r == get_or_create_player_id(rows[i], mapping, max_id) IN
       /\ mapping' = r.mapping
       /\ max_id' = r.max_id
       /\ ids' = Append(ids, r.pid)
       /\ rows' = IF r.none \/ Truthy(Get(rows[i], "player_id")) THEN rows
                  ELSE [rows EXCEPT ![i] = Put(@, "player_id", IntToStr(r.pid))]
    /\ i' = i + 1
    /\ pc' = IF i = Len(rows) THEN "export" ELSE "resolve"
    /\ UNCHANGED <<mfcall, peer, files, staged, runs, kills, source, skip, base_headers, fieldnames, pending,
                   outcome, rows0, idx0, db0, rerun, savedIdx, prev>>

\* a loop that ends at the first row without a name
MainResolveBreak ==
    /\ pc = "resolve"
    /\ LET r == get_or_create_player_id(rows[i], mapping, max_id) IN
       /\ mapping' = r.mapping
       /\ max_id' = r.max_id
       /\ ids' = Append(ids, r.pid)
       /\ rows' = IF r.none THEN rows
                  ELSE [rows EXCEPT ![i] = Put(@, "player_id", IntToStr(r.pid))]
    /\ i' = i + 1
    /\ pc' = IF i = Len(rows) \/ get_or_create_player_id(rows[i], mapping, max_id).none THEN "export" ELSE "resolve"
    /\ UNCHANGED <<mfcall, peer, files, staged, runs, kills, source, skip, base_headers, fieldnames, pending,
                   outcome, rows0, idx0, db0, rerun, savedIdx, prev>>

\* one turn of "for row in rows": the int pid reaches every later reader
\* (csv writer, update_database) through str(), so the row holds its text
MainResolve ==
    /\ pc = "resolve"
    /\ LET r == get_or_create_player_id(rows[i], mapping, max_id) IN
       /\ mapping' = r.mapping
       /\ max_id' = r.max_id
       /\ ids' = Append(ids, r.pid)
       /\ rows' = IF r.none THEN rows
                  ELSE [rows EXCEPT ![i] = Put(@, "player_id", IntToStr(r.pid))]
    /\ i' = i + 1
    /\ pc' = IF i = Len(rows) THEN "export" ELSE "resolve"
    /\ UNCHANGED <<mfcall, peer, files, staged, runs, kills, source, skip, base_headers, fieldnames, pending,
                   outcome, rows0, idx0, db0, rerun, savedIdx, prev>>

\* a main that writes the export whatever the flag says
MainExportAlways ==
    /\ pc = "export"
    /\ LET fn == build_fieldnames(base_headers, rows) IN
       /\ fieldnames' = fn
       /\ pending' = write_csv(rows, fn)
    /\ csvFile' = Truncated
    /\ pc' = "export_write"
    /\ UNCHANGED <<mfcall, peer, indexFile, dbFile, htmlFile, staged, runs, kills, source, skip, rows,
                   base_headers, mapping, max_id, i, outcome, history, savedIdx, prev>>

\* build_fieldnames, then write_csv opens the export unless it is skipped
MainExport ==
    /\ pc = "export"
    /\ LET fn == build_fieldnames(base_headers, rows) IN
       /\ fieldnames' = fn
       /\ pending' = IF skip THEN pending ELSE write_csv(rows, fn)
    /\ csvFile' = IF skip THEN csvFile ELSE Truncated
    /\ pc' = IF skip THEN "save_index" ELSE "export_write"
    /\ UNCHANGED <<mfcall, peer, indexFile, dbFile, htmlFile, staged, runs, kills, source, skip, rows,
                   base_headers, mapping, max_id, i, outcome, history, savedIdx, prev>>

\* write_csv writes the header and the rows and closes the export
MainExportWrite ==
    /\ pc = "export_write"
    /\ csvFile' = pending.file
    /\ pc' = IF pending.ok THEN "save_index" ELSE "exit"
    /\ outcome' = IF pending.ok THEN outcome ELSE "raised"
    /\ UNCHANGED <<mfcall, peer, indexFile, dbFile, htmlFile, staged, runs, kills, locals, history,
                   savedIdx, prev>>

\* save_index builds its rows and opens the index
MainSaveIndex ==
    /\ pc = "save_index"
    /\ LET r == save_index(mapping) IN
       /\ pending' = IF r.ok THEN r ELSE pending
       /\ indexFile' = IF r.ok THEN Truncated ELSE indexFile
       /\ pc' = IF r.ok THEN "save_write" ELSE "exit"
       /\ outcome' = IF r.ok THEN outcome ELSE "raised"
    /\ UNCHANGED <<mfcall, peer, dbFile, htmlFile, csvFile, staged, runs, kills, source, skip, rows,
                   base_headers, mapping, max_id, i, fieldnames, history, savedIdx, prev>>

\* save_index writes the header and the rows and closes the index
MainSaveWrite ==
    /\ pc = "save_write"
    /\ indexFile' = pending.file
    /\ savedIdx' = pending.file
    /\ pc' = "update_db"
    /\ UNCHANGED <<mfcall, peer, dbFile, htmlFile, csvFile, staged, runs, kills, locals, outcome, history, prev>>

\* update_database loads, merges and sorts, then opens the table
MainUpdateDb ==
    /\ pc = "update_db"
    /\ LET u == update_database(dbFile, rows, fieldnames) IN
       /\ pending' = IF u.raised THEN pending
                     ELSE DictWrite(u.ordered_rows, u.fieldnames)
       /\ dbFile' = IF u.raised THEN dbFile ELSE Truncated
       /\ pc' = IF u.raised THEN "exit" ELSE "db_write"
       /\ outcome' = IF u.raised THEN "raised" ELSE outcome
    /\ UNCHANGED <<mfcall, peer, indexFile, htmlFile, csvFile, staged, runs, kills, source, skip, rows,
                   base_headers, mapping, max_id, i, fieldnames, history, savedIdx, prev>>

\* update_database writes the header and the rows and closes the table
MainDbWrite ==
    /\ pc = "db_write"
    /\ dbFile' = pending.file
    /\ pc' = "exit"
    /\ outcome' = IF pending.ok THEN "completed" ELSE "raised"
    /\ UNCHANGED <<mfcall, peer, indexFile, htmlFile, csvFile, staged, runs, kills, locals, history,
                   savedIdx, prev>>

\* what a run that ends leaves for the next one to be compared with
LastRun(how, where) ==
    [outcome |-> how, killedAt |-> where, source |-> source, skip |-> skip,
     rows0 |-> rows0, ids |-> ids, mapping |-> mapping, max_id |-> max_id,
     idx0 |-> idx0]

\* a main that says "not found" and returns
ExitStatusReturn(how) == IF how = "raised" THEN 1 ELSE 0

\* the exit status of the process: 1 after sys.exit(1) and after an uncaught
\* exception, 0 when main returns
ExitStatus(how) == IF how \in {"not_found", "raised"} THEN 1 ELSE 0

\* the process ends: return, sys.exit(1) or an uncaught exception
MainExit ==
    /\ pc = "exit"
    /\ pc' = "idle"
    /\ prev' = LastRun(outcome, "none")
    /\ NoRun
    /\ UNCHANGED <<mfcall, peer, files, staged, runs, kills, outcome, savedIdx>>

Run ==
    \/ MainLoadIndex \/ MainResolve \/ MainExport \/ MainExportWrite
    \/ MainSaveIndex \/ MainSaveWrite \/ MainUpdateDb \/ MainDbWrite \/ MainExit

Next ==
    \/ \E batch \in Batches(0) : ScrapeHtml(batch)
    \/ \E batch \in Batches(1) : ScrapeCsv(batch)
    \/ \E src \in {"html", "csv"}, sk \in BOOLEAN : MainStart(src, sk)
    \/ Run

\* sequential runs, each left to finish
Spec == Init /\ [][Next]_vars

(***************************************************************************)
(* Interruption: the process is killed at any point of a run.  A file open *)
(* for writing keeps what had reached it: nothing, or the header and some  *)
(* of the records.                                                         *)
(***************************************************************************)
Cut(f) ==
    {Truncated} \cup {[f EXCEPT !.rows = SubSeq(f.rows, 1, n)] : n \in 0..Len(f.rows)}

Kill ==
    /\ pc \notin {"idle", "exit"} /\ kills < MaxKills
    /\ kills' = kills + 1
    /\ \E f \in IF pc \in {"export_write", "save_write", "db_write"}
                THEN Cut(pending.file) ELSE {NoFile} :
          /\ csvFile' = IF pc = "export_write" THEN f ELSE csvFile
          /\ indexFile' = IF pc = "save_write" THEN f ELSE indexFile
          /\ dbFile' = IF pc = "db_write" THEN f ELSE dbFile
    /\ pc' = "idle"
    /\ outcome' = "killed"
    /\ prev' = LastRun("killed", pc)
    /\ NoRun
    /\ UNCHANGED <<mfcall, peer, htmlFile, staged, runs, savedIdx>>

NextCrash == Next \/ Kill

SpecCrash == Init /\ [][NextCrash]_vars

(***************************************************************************)
(* Starting afresh: the user removes the index file between two runs.      *)
(***************************************************************************)
RemoveIndex ==
    /\ pc = "idle" /\ indexFile.exists /\ runs < MaxRuns
    /\ indexFile' = NoFile
    /\ UNCHANGED <<mfcall, peer, dbFile, htmlFile, csvFile, staged, runs, kills, pc, locals, outcome,
                   history, savedIdx, prev>>

NextFresh == Next \/ RemoveIndex

SpecFresh == Init /\ [][NextFresh]_vars

(***************************************************************************)
(* A damaged index: between two runs the identifier of one record of the   *)
(* index file is overwritten, by text that is no integer or by the same    *)
(* integer with a blank before it.                                         *)
(***************************************************************************)
DamagedIds == {<<"x">>, <<>>}

PadId(txt) == <<" ">> \o txt

DamageIndex ==
    /\ pc = "idle" /\ runs < MaxRuns /\ prev.outcome = "completed"
    /\ indexFile.exists /\ indexFile = savedIdx
    /\ \E j \in 1..Len(indexFile.rows) :
          \E txt \in DamagedIds \cup {PadId(indexFile.rows[j][1])} :
              indexFile' = [indexFile EXCEPT !.rows[j][1] = txt]
    /\ UNCHANGED <<mfcall, peer, dbFile, htmlFile, csvFile, staged, runs, kills, pc, locals, outcome,
                   history, savedIdx, prev>>

NextDamaged == Next \/ DamageIndex

SpecDamaged == Init /\ [][NextDamaged]_vars

(***************************************************************************)
(* Keys: one source of key rows is read by the pipeline, and read again.   *)
(***************************************************************************)
NextKey ==
    \/ \E batch \in KeyBatches : runs = 0 /\ ScrapeHtml(batch)
    \/ \E batch \in KeyBatches : runs = 0 /\ ScrapeCsv(batch)
    \/ \E src \in {"html", "csv"}, sk \in BOOLEAN : MainStart(src, sk)
    \/ Run

SpecKey == Init /\ [][NextKey]_vars

(***************************************************************************)
(* Longer batches: one source of MaxLong rows is read by the pipeline, and *)
(* read again.                                                             *)
(***************************************************************************)
NextLong ==
    \/ \E batch \in LongBatches : runs = 0 /\ ScrapeHtml(batch)
    \/ \E batch \in LongBatches : runs = 0 /\ ScrapeCsv(batch)
    \/ \E src \in {"html", "csv"}, sk \in BOOLEAN : MainStart(src, sk)
    \/ Run

SpecLong == Init /\ [][NextLong]_vars

(***************************************************************************)
(* The master table alone: update_database called again and again on one   *)
(* table file, each call left to return.                                   *)
(***************************************************************************)
\* main() at line 272 with the rows and the columns it has built
CallUpdateDatabase(batch) ==
    /\ pc = "idle" /\ runs < MaxCalls
    /\ runs' = runs + 1
    /\ rows' = batch
    /\ rows0' = batch
    /\ fieldnames' = build_fieldnames(<<>>, batch)
    /\ db0' = dbFile
    /\ idx0' = indexFile
    /\ outcome' = "running"
    /\ pc' = "update_db"
    /\ UNCHANGED <<mfcall, peer, files, staged, kills, source, skip, base_headers, mapping, max_id, i,
                   pending, ids, rerun, savedIdx, prev>>

NextDb ==
    \/ \E batch \in DbBatches : CallUpdateDatabase(batch)
    \/ MainUpdateDb \/ MainDbWrite \/ MainExit

SpecDb == Init /\ [][NextDb]_vars

(***************************************************************************)
(* merge_fieldnames alone: called on two column lists, then called again   *)
(* on its result and the first list.  A column list is None or a list of   *)
(* up to MaxCols column names, with repeats and with player_id anywhere.   *)
(***************************************************************************)
Cols == {"player_id", "goals", "assists"}

ColumnLists == {None} \cup UNION {[1..n -> Cols] : n \in 0..MaxCols}

InitMerge ==
    /\ InitMain
    /\ mfcall \in [step : {0}, existing : ColumnLists, incoming : ColumnLists,
                   merged : {<<>>}, again : {<<>>}]
    /\ peer = NoPeer

\* merged = merge_fieldnames(existing, incoming)
CallMergeFieldnames ==
    /\ mfcall.step = 0
    /\ mfcall' = [mfcall EXCEPT !.step = 1,
                                !.merged = merge_fieldnames(mfcall.existing, mfcall.incoming)]
    /\ UNCHANGED <<peer, files, staged, runs, kills, pc, locals, outcome, history, savedIdx,
                   prev>>

\* again = merge_fieldnames(merged, existing)
CallMergeAgain ==
    /\ mfcall.step = 1
    /\ mfcall' = [mfcall EXCEPT !.step = 2,
                                !.again = merge_fieldnames(mfcall.merged, mfcall.existing)]
    /\ UNCHANGED <<peer, files, staged, runs, kills, pc, locals, outcome, history, savedIdx,
                   prev>>

NextMerge == CallMergeFieldnames \/ CallMergeAgain

SpecMerge == InitMerge /\ [][NextMerge]_vars

(***************************************************************************)
(* Two invocations at once: while main() runs once, a second invocation    *)
(* of main() (with --skip-source-export, on a page of its own) runs on the *)
(* same index and table files.  Nothing locks the files.  The loop of the  *)
(* second invocation touches its own memory only and is one step; its      *)
(* writes are taken whole, and not while the first invocation has the same *)
(* file open: what two overlapping writers leave in a file is not          *)
(* modelled.  early, late and last record what the first invocation had   *)
(* done when the second loaded and when it saved.                          *)
(***************************************************************************)
PeerRows == {RowA, RowB, RowNameless}

PeerBatches == UNION {[1..n -> PeerRows] : n \in 1..MaxRows}

\* save_index has returned in the first invocation
MainSaved == savedIdx.exists

\* load_index has returned in the first invocation
MainLoaded == runs > 0 /\ pc # "load_index"

\* parse_args, the existence check and rows_from_html of the second invocation
PeerStart(batch) ==
    /\ peer.pc = "none"
    /\ peer' = [peer EXCEPT !.pc = "load_index", !.rows = batch]
    /\ UNCHANGED <<mfcall, files, staged, runs, kills, pc, locals, outcome, history, savedIdx,
                   prev>>

\* mapping, max_id = load_index(index_path)
PeerLoadIndex ==
    /\ peer.pc = "load_index"
    /\ LET r == load_index(indexFile) IN
       peer' = [peer EXCEPT !.pc = IF r.ok THEN "resolve" ELSE "done",
                            !.mapping = r.mapping,
                            !.max_id = r.max_id,
                            !.early = ~MainSaved /\ pc # "save_write"]
    /\ UNCHANGED <<mfcall, files, staged, runs, kills, pc, locals, outcome, history, savedIdx,
                   prev>>

\* for row in rows: get_or_create_player_id
PeerResolve ==
    /\ peer.pc = "resolve"
    /\ LET r == ResolveAll(peer.rows, 1, peer.mapping, peer.max_id) IN
       peer' = [peer EXCEPT !.pc = "save_index",
                            !.rows = r.rows,
                            !.mapping = r.mapping,
                            !.max_id = r.max_id]
    /\ UNCHANGED <<mfcall, files, staged, runs, kills, pc, locals, outcome, history, savedIdx,
                   prev>>

\* a save_index that reads the index file again and adds what it finds there
PeerSaveIndexMerging ==
    /\ peer.pc = "save_index" /\ pc # "save_write"
    /\ LET found == load_index(indexFile).mapping
           r == save_index(Update(found, peer.mapping))
       IN /\ indexFile' = IF r.ok THEN r.file ELSE indexFile
          /\ peer' = [peer EXCEPT !.pc = IF r.ok THEN "update_db" ELSE "done",
                                  !.late = MainLoaded,
                                  !.last = MainSaved,
                                  !.saved = IF r.ok THEN save_index(peer.mapping).file
                                            ELSE NoFile]
    /\ UNCHANGED <<mfcall, dbFile, htmlFile, csvFile, staged, runs, kills, pc, locals, outcome,
                   history, savedIdx, prev>>

\* save_index(mapping, index_path)
PeerSaveIndex ==
    /\ peer.pc = "save_index" /\ pc # "save_write"
    /\ LET r == save_index(peer.mapping) IN
       /\ indexFile' = IF r.ok THEN r.file ELSE indexFile
       /\ peer' = [peer EXCEPT !.pc = IF r.ok THEN "update_db" ELSE "done",
                               !.late = MainLoaded,
                               !.last = MainSaved,
                               !.saved = IF r.ok THEN r.file ELSE NoFile]
    /\ UNCHANGED <<mfcall, dbFile, htmlFile, csvFile, staged, runs, kills, pc, locals, outcome,
                   history, savedIdx, prev>>

\* update_database(database_path, rows, fieldnames)
PeerUpdateDatabase ==
    /\ peer.pc = "update_db" /\ pc # "db_write"
    /\ LET u == update_database(dbFile, peer.rows, build_fieldnames(<<>>, peer.rows)) IN
       dbFile' = IF u.raised THEN dbFile ELSE DictWrite(u.ordered_rows, u.fieldnames).file
    /\ peer' = [peer EXCEPT !.pc = "done"]
    /\ UNCHANGED <<mfcall, indexFile, htmlFile, csvFile, staged, runs, kills, pc, locals,
                   outcome, history, savedIdx, prev>>

NextPeers ==
    \/ \E batch \in Batches(1) : runs = 0 /\ ScrapeHtml(batch)
    \/ \E sk \in BOOLEAN : runs = 0 /\ MainStart("html", sk)
    \/ Run
    \/ \E batch \in PeerBatches : PeerStart(batch)
    \/ PeerLoadIndex \/ PeerResolve \/ PeerSaveIndex \/ PeerUpdateDatabase

SpecPeers == Init /\ [][NextPeers]_vars

(***************************************************************************)
(* What the properties speak of.                                           *)
(***************************************************************************)
Entries(d) == {d[j] : j \in 1..Len(d)}

\* the key -> identifier pairs an index file holds, identifiers as written
FilePairs(f) == {[k |-> f.rows[j][2], v |-> f.rows[j][1]] : j \in 1..Len(f.rows)}

\* the pairs of a mapping, identifiers as save_index writes them
TextPairs(m) == {[k |-> e.k, v |-> IntToStr(e.v)] : e \in Entries(m)}

\* the name and the key get_or_create_player_id takes from a row
RowName(row) == Or(Get(row, "player"), Get(row, "player_name"))

RowKey(row) == make_key(RowName(row), Get(row, "birth_year"), Get(row, "team"))

\* the resolution loop is at a named row whose key is not / is in the mapping
AtNewKey == pc = "resolve" /\ Truthy(RowName(rows[i])) /\ ~Has(mapping, RowKey(rows[i]))

AtKnownKey == pc = "resolve" /\ Truthy(RowName(rows[i])) /\ Has(mapping, RowKey(rows[i]))

\* the run went through identity resolution and save_index
Resolved(how) == how \in {"completed", "raised"}

(***************************************************************************)
(* C1. Permanence of identity records: when a run ends, every              *)
(* key -> identifier pair that the index file held when the run started is *)
(* still in the index file, with the same identifier.                      *)
(***************************************************************************)
C1_Permanence == pc = "exit" => FilePairs(idx0) \subseteq FilePairs(indexFile)

\* a run that started from a non-empty index has added a pair to it
C1_Witness ==
    /\ pc = "exit" /\ outcome = "completed"
    /\ FilePairs(idx0) # {}
    /\ FilePairs(indexFile) # FilePairs(idx0)

(***************************************************************************)
(* C2. Identifier uniqueness: in the mapping in memory and in the index    *)
(* file, two distinct keys never have the same identifier, and every       *)
(* identifier is a positive integer.                                       *)
(***************************************************************************)
C2_UniqueIds ==
    /\ \A a, b \in Entries(mapping) : a.k # b.k => a.v # b.v
    /\ \A a \in Entries(mapping) : a.v > 0
    /\ \A a, b \in FilePairs(indexFile) : a.k # b.k => a.v # b.v
    /\ \A a \in FilePairs(indexFile) : IsDigit(a.v) /\ StrToInt(a.v) > 0

\* the index file holds two keys, the second added by a later run
C2_Witness ==
    /\ pc = "exit" /\ outcome = "completed"
    /\ Cardinality(FilePairs(indexFile)) = 2
    /\ Cardinality(FilePairs(idx0)) = 1

(***************************************************************************)
(* C3. New-key growth: resolving a named row whose key is not in the       *)
(* mapping raises max_id by exactly 1, returns the new max_id, which is    *)
(* greater than every identifier of the mapping, and adds exactly the pair *)
(* (key, new identifier) to the mapping; when save_index has written, the  *)
(* index file holds every pair of the mapping.                             *)
(***************************************************************************)
C3_NewKeyGrowth ==
    [][ /\ AtNewKey =>
            /\ max_id' = max_id + 1
            /\ ids' = Append(ids, max_id')
            /\ \A e \in Entries(mapping) : e.v < max_id'
            /\ Len(mapping') = Len(mapping) + 1
            /\ Entries(mapping') =
                  Entries(mapping) \cup {[k |-> RowKey(rows[i]), v |-> max_id']}
        /\ pc = "save_write" => TextPairs(mapping) \subseteq FilePairs(indexFile')
      ]_vars

\* the index has just been saved with a key this run added to a loaded mapping
C3_Witness ==
    /\ pc = "update_db"
    /\ FilePairs(idx0) # {}
    /\ Cardinality(FilePairs(indexFile)) > Cardinality(FilePairs(idx0))

(***************************************************************************)
(* C4. Stability: resolving a named row whose key is in the mapping        *)
(* returns the identifier the mapping holds and changes neither the        *)
(* mapping nor max_id.                                                     *)
(***************************************************************************)
C4_Stability ==
    [][ AtKnownKey =>
            /\ ids' = Append(ids, At(mapping, RowKey(rows[i])))
            /\ mapping' = mapping
            /\ max_id' = max_id
      ]_vars

\* a run resolved a key it had loaded from the index an earlier run wrote,
\* and then again the key it had itself just met
C4_Witness ==
    /\ pc = "exit"
    /\ FilePairs(idx0) # {}
    /\ Len(ids) = 2 /\ ids[1] > 0 /\ ids[1] = ids[2]
    /\ IntToStr(ids[1]) \in {e.v : e \in FilePairs(idx0)}

(***************************************************************************)
(* C5. Between runs the master table holds no row whose identifier is      *)
(* empty and no row without a usable name.                                 *)
(***************************************************************************)
C5_NoNamelessInTable ==
    pc = "idle" =>
        \A j \in 1..Len(dbFile.rows) :
            LET row == ReadDicts(dbFile)[j] IN
            Truthy(Get(row, "player_id")) /\ Truthy(RowName(row))

(***************************************************************************)
(* C6. Crash-safety of the index: when a run is interrupted, the index     *)
(* file is the one the last finished save_index left or the complete new   *)
(* index of the run.                                                       *)
(***************************************************************************)
C6_IndexCrashSafe ==
    [][ (pc # "idle" /\ outcome' = "killed") =>
            (indexFile' = savedIdx \/ indexFile' = save_index(mapping).file)
      ]_vars

(***************************************************************************)
(* C7. Crash-safety of the master table: when update_database is           *)
(* interrupted or raises, the table file is as it was before the call.     *)
(***************************************************************************)
C7_TableCrashSafe ==
    [][ (pc \in {"update_db", "db_write"} /\ outcome' \in {"killed", "raised"}) =>
            dbFile' = db0
      ]_vars

(***************************************************************************)
(* C8. Idempotent re-runs: a completed run with the arguments and the      *)
(* source path of the completed run before it leaves the master table as   *)
(* that run left it.                                                       *)
(***************************************************************************)
C8_IdempotentRerun ==
    (pc = "exit" /\ outcome = "completed" /\ rerun /\ prev.outcome = "completed")
        => dbFile = db0

(***************************************************************************)
(* C9. Replay after an index-ahead crash: a run interrupted after          *)
(* save_index and before update_database opens the table, then run again   *)
(* to completion on the same source, gives every row the identifier of the *)
(* interrupted run, assigns no new identifier and leaves the index file    *)
(* as it was.                                                              *)
(***************************************************************************)
IsReplay ==
    /\ pc = "exit" /\ outcome = "completed" /\ rerun
    /\ prev.outcome = "killed" /\ prev.killedAt = "update_db"

C9_ReplaySafe ==
    IsReplay =>
        /\ ids = prev.ids
        /\ max_id = prev.max_id
        /\ mapping = prev.mapping
        /\ indexFile = idx0

\* the replay of a run that had assigned two identifiers
C9_Witness == IsReplay /\ prev.max_id = 2 /\ \E j \in 1..Len(ids) : ids[j] = 2

(***************************************************************************)
(* C10. Determinism: two runs that both start from an empty index and read *)
(* the same rows give every row position the same identifier (or None) and *)
(* end with the same mapping and max_id.                                   *)
(***************************************************************************)
BothFromEmpty ==
    /\ pc = "exit" /\ Resolved(outcome) /\ Resolved(prev.outcome)
    /\ FilePairs(idx0) = {} /\ FilePairs(prev.idx0) = {}
    /\ rows0 = prev.rows0

C10_Determinism ==
    BothFromEmpty =>
        /\ ids = prev.ids
        /\ mapping = prev.mapping
        /\ max_id = prev.max_id

\* the index the first run wrote was removed, and the second run assigned again
C10_Witness == BothFromEmpty /\ ~idx0.exists /\ max_id = 2 /\ dbFile.rows # <<>>

(***************************************************************************)
(* What the properties of the key speak of.                                *)
(***************************************************************************)
\* the birth year and the team of a row, the empty text when there is none
RowYear(row) == Or(Get(row, "birth_year"), <<>>)

RowTeam(row) == Or(Get(row, "team"), <<>>)

\* the three components make_key joins
Components(row) ==
    <<normalize(RowName(row)), Strip(RowYear(row)), normalize(RowTeam(row))>>

HasPipe(s) == \E c \in 1..Len(s) : s[c] = "|"

\* the resolution loop has gone through every row read
AllResolved == pc = "export"

\* the same letter, whatever the case
SameLetter(a, b) == a = b \/ {a, b} \in {{"A", "a"}, {"B", "b"}, {"X", "x"}}

RECURSIVE Lead(_)
Lead(s) == IF s # <<>> /\ Head(s) = " " THEN 1 + Lead(Tail(s)) ELSE 0

\* s and t differ only in letter case, in leading and trailing whitespace and
\* in the length of the runs of whitespace inside
RECURSIVE AlikeFrom(_, _, _)
AlikeFrom(s, t, start) ==
    LET s1 == SubSeq(s, Lead(s) + 1, Len(s))
        t1 == SubSeq(t, Lead(t) + 1, Len(t))
    IN IF s1 = <<>> \/ t1 = <<>> THEN s1 = t1
       ELSE /\ start \/ ((Lead(s) > 0) <=> (Lead(t) > 0))
            /\ SameLetter(Head(s1), Head(t1))
            /\ AlikeFrom(Tail(s1), Tail(t1), FALSE)

AlikeText(s, t) == AlikeFrom(s, t, TRUE)

\* s is core with whitespace around it
Padding(s, core) ==
    \E lo \in 0..Len(s) :
        /\ lo + Len(core) <= Len(s)
        /\ SubSeq(s, lo + 1, lo + Len(core)) = core
        /\ \A c \in (1..lo) \cup ((lo + Len(core) + 1)..Len(s)) : s[c] = " "

\* a and b are equal up to the whitespace around them
SameTrimmed(a, b) ==
    \E lo \in 1..(Len(a) + 1), hi \in 0..Len(a) :
        Padding(a, SubSeq(a, lo, hi)) /\ Padding(b, SubSeq(a, lo, hi))

\* a birth year with a character that is not whitespace
NonBlank(y) == y # None /\ \E c \in 1..Len(y) : y[c] # " "

\* row j has a name and a team and no birth year; row k has its name and team
SameButYear(j, k) ==
    /\ Truthy(RowName(rows0[j])) /\ Truthy(Get(rows0[j], "team"))
    /\ ~Truthy(Get(rows0[j], "birth_year"))
    /\ RowName(rows0[k]) = RowName(rows0[j])
    /\ Get(rows0[k], "team") = Get(rows0[j], "team")

\* row j got the key with the empty birth year, and not the identifier of row k
EmptyYearKey(j, k) ==
    /\ RowKey(rows0[j]) =
          Join(<<"|">>, <<normalize(RowName(rows0[j])), <<>>,
                          normalize(Get(rows0[j], "team"))>>)
    /\ ids[j] # ids[k]

(***************************************************************************)
(* C11. Delimiter safety of make_key: no component of the key of a row     *)
(* holds the delimiter "|", and two rows whose triples of components       *)
(* differ get different keys and different identifiers.                    *)
(***************************************************************************)
C11_DelimiterSafe ==
    AllResolved =>
        /\ \A j \in 1..Len(rows0), c \in 1..3 : ~HasPipe(Components(rows0[j])[c])
        /\ \A j, k \in 1..Len(rows0) :
              Components(rows0[j]) # Components(rows0[k]) =>
                  RowKey(rows0[j]) # RowKey(rows0[k]) /\ ids[j] # ids[k]

(***************************************************************************)
(* C12. Normalization equivalence: two rows whose names and teams differ   *)
(* only in letter case, surrounding whitespace and the length of inner     *)
(* whitespace runs, and whose birth years are equal up to surrounding      *)
(* whitespace, get the same key and the same identifier.                   *)
(***************************************************************************)
C12_NormalizationEquivalence ==
    AllResolved =>
        \A j, k \in 1..Len(rows0) :
            ( /\ AlikeText(RowName(rows0[j]), RowName(rows0[k]))
              /\ AlikeText(RowTeam(rows0[j]), RowTeam(rows0[k]))
              /\ SameTrimmed(RowYear(rows0[j]), RowYear(rows0[k])) )
            => RowKey(rows0[j]) = RowKey(rows0[k]) /\ ids[j] = ids[k]

\* two spellings of a two-word name, runs of different length, one identifier
C12_Witness ==
    /\ AllResolved /\ Len(rows0) = 2
    /\ RowName(rows0[1]) = <<"A", " ", " ", "B">>
    /\ RowName(rows0[2]) = <<" ", "a", " ", "b", " ">>
    /\ ids[1] = ids[2] /\ ids[1] > 0

(***************************************************************************)
(* C13. A missing birth year is not a wildcard: a row with a name and a    *)
(* team and no birth year gets the key with the empty birth-year           *)
(* component, and an identifier other than that of a row with the same     *)
(* name and team and a birth year that holds a character other than        *)
(* whitespace.                                                             *)
(***************************************************************************)
C13_MissingYearNotWildcard ==
    AllResolved =>
        \A j, k \in 1..Len(rows0) :
            (SameButYear(j, k) /\ NonBlank(Get(rows0[k], "birth_year")))
            => EmptyYearKey(j, k)

\* C13 as worded: the other row has any non-empty birth year
C13_AsWorded ==
    AllResolved =>
        \A j, k \in 1..Len(rows0) :
            (SameButYear(j, k) /\ Truthy(Get(rows0[k], "birth_year")))
            => EmptyYearKey(j, k)

\* a row without the birth_year cell, then the same player with a birth year
C13_Witness ==
    /\ AllResolved /\ Len(rows0) = 2
    /\ Get(rows0[1], "birth_year") = None
    /\ SameButYear(1, 2) /\ NonBlank(Get(rows0[2], "birth_year"))
    /\ ids[1] > 0 /\ ids[2] > ids[1]

(***************************************************************************)
(* What the properties of the master table speak of.                       *)
(***************************************************************************)
\* update_database has returned or raised / has returned
Called == pc = "exit"

Returned == pc = "exit" /\ outcome = "completed"

RowId(row) == Get(row, "player_id")

ColSet(header) == {header[c] : c \in 1..Len(header)}

\* the rows of a table file, as csv.DictReader gives them
Before == ReadDicts(db0)

After == ReadDicts(dbFile)

StoredBefore(pid) == \E j \in 1..Len(Before) : RowId(Before[j]) = pid

OldRow(pid) == Before[CHOOSE j \in 1..Len(Before) : RowId(Before[j]) = pid]

\* the incoming rows for an identifier, and those of them that hold a column
Incoming(pid) == {n \in 1..Len(rows) : RowId(rows[n]) = pid}

Supplying(pid, col) == {n \in Incoming(pid) : Has(rows[n], col)}

Last(S) == CHOOSE n \in S : \A m \in S : m <= n

(***************************************************************************)
(* C14. Schema monotonicity: every column of the table's header before a   *)
(* call of update_database is in the header after it, whether the call     *)
(* returns or raises; hence columns are never removed by later calls.      *)
(***************************************************************************)
C14_SchemaMonotone == Called => ColSet(db0.header) \subseteq ColSet(dbFile.header)

\* the table had a column the incoming rows lack, and the call added a column
C14_Witness ==
    /\ Returned
    /\ \E c \in ColSet(db0.header) : ~InSeq(c, fieldnames)
    /\ \E c \in ColSet(dbFile.header) : c \notin ColSet(db0.header)

(***************************************************************************)
(* C15. Non-destructive update: after update_database every row stored     *)
(* before the call is in the table under its identifier, and each of its   *)
(* columns that no incoming row for that identifier holds has the value    *)
(* stored before; so a stored row whose identifier is not in the batch     *)
(* keeps every value.                                                      *)
(***************************************************************************)
C15_NonDestructive ==
    Returned =>
        \A j \in 1..Len(Before) :
            \E k \in 1..Len(After) :
                /\ RowId(After[k]) = RowId(Before[j])
                /\ \A c \in ColSet(db0.header) :
                      Supplying(RowId(Before[j]), c) = {} =>
                          Get(After[k], c) = Get(Before[j], c)

(***************************************************************************)
(* C16. Idempotent re-merge: a call of update_database with the incoming   *)
(* rows and columns of the call just before it leaves the table file       *)
(* (header, row order, every cell) as that call left it.                   *)
(***************************************************************************)
C16_IdempotentRemerge ==
    (Returned /\ prev.outcome = "completed" /\ rows0 = prev.rows0) => dbFile = db0

\* the second of two equal calls, on a table that held another row before them
C16_Witness ==
    /\ Returned /\ prev.outcome = "completed" /\ rows0 = prev.rows0
    /\ \E k \in 1..Len(After) : Truthy(RowId(After[k])) /\ Incoming(RowId(After[k])) = {}
    /\ \E k \in 1..Len(After) : Incoming(RowId(After[k])) # {}

(***************************************************************************)
(* C17. Last-writer-wins merge: after update_database every incoming       *)
(* identifier has exactly one row in the table, and in every row the value *)
(* of a column is that of the last incoming row for the identifier that    *)
(* holds the column; if there is none, the value stored before the call,   *)
(* or the empty string if none was stored.                                 *)
(***************************************************************************)
C17_LastWriterWins ==
    Returned =>
        /\ \A n \in 1..Len(rows) :
              RowId(rows[n]) # None =>
                  \E k \in 1..Len(After) : RowId(After[k]) = RowId(rows[n])
        /\ \A k, m \in 1..Len(After) : RowId(After[k]) = RowId(After[m]) => k = m
        /\ \A k \in 1..Len(After), c \in ColSet(dbFile.header) :
              LET pid == RowId(After[k])
                  from == Supplying(pid, c)
              IN Get(After[k], c) =
                    IF from # {} THEN Get(rows[Last(from)], c)
                    ELSE IF StoredBefore(pid) /\ c \in ColSet(db0.header)
                         THEN Get(OldRow(pid), c)
                         ELSE <<>>

(***************************************************************************)
(* C18. Rectangular table: after update_database every row of the table    *)
(* file has one value for every column of the header, and the value is the *)
(* empty string where no incoming row supplied one and none was stored     *)
(* before: for a stored row and a column that is new as for a new row.     *)
(***************************************************************************)
C18_Rectangular ==
    Returned =>
        \A k \in 1..Len(dbFile.rows) :
            /\ Len(dbFile.rows[k]) = Len(dbFile.header)
            /\ \A c \in ColSet(dbFile.header) :
                  LET pid == RowId(After[k]) IN
                  /\ Get(After[k], c) # None
                  /\ ( /\ Supplying(pid, c) = {}
                       /\ ~(StoredBefore(pid) /\ c \in ColSet(db0.header)) )
                     => Get(After[k], c) = <<>>

\* a row stored before the call has the empty string in a column the call brought
C18_Witness ==
    /\ Returned
    /\ \E k \in 1..Len(After), c \in ColSet(dbFile.header) :
          /\ StoredBefore(RowId(After[k])) /\ Incoming(RowId(After[k])) = {}
          /\ c \notin ColSet(db0.header)
          /\ Get(After[k], c) = <<>>

(***************************************************************************)
(* C19. One row per identifier: between and after calls of update_database *)
(* the table file has player_id as its first column and no two rows with   *)
(* the same player_id.                                                     *)
(***************************************************************************)
C19_OneRowPerId ==
    (pc \in {"idle", "exit"} /\ dbFile.exists) =>
        /\ dbFile.header # <<>> /\ dbFile.header[1] = "player_id"
        /\ \A k, m \in 1..Len(After) : RowId(After[k]) = RowId(After[m]) => k = m

\* two incoming rows for an identifier the table held, and still one row for it
C19_Witness ==
    /\ Returned /\ Len(rows) = 2
    /\ Truthy(RowId(rows[1])) /\ RowId(rows[1]) = RowId(rows[2])
    /\ StoredBefore(RowId(rows[1]))
    /\ Len(After) = 2

(***************************************************************************)
(* C20. Rows are never dropped: every row of the table file before a call  *)
(* of update_database is in the table file after it, under the same        *)
(* identifier.                                                             *)
(***************************************************************************)
C20_RowsNeverDropped ==
    Called =>
        \A j \in 1..Len(Before) :
            \E k \in 1..Len(After) : RowId(After[k]) = RowId(Before[j])

(***************************************************************************)
(* C21. Malformed table is fatal: when the table file holds a row whose    *)
(* identifier is missing or empty, update_database ends with an error and  *)
(* leaves the table file as it was.                                        *)
(***************************************************************************)
C21_MalformedTableFatal ==
    (Called /\ \E j \in 1..Len(Before) : ~Truthy(RowId(Before[j]))) =>
        outcome = "raised" /\ dbFile = db0

(***************************************************************************)
(* C22. Malformed index is fatal before any write: in a run that reads     *)
(* rows and finds an index file with an identifier that is no integer,     *)
(* load_index raises; the run ends there with an error, no identifier is   *)
(* returned for any row, and no step of the run changes the index file,    *)
(* the table file or the export.                                           *)
(***************************************************************************)
BadIndex(f) == f.exists /\ \E j \in 1..Len(f.rows) : ~IntParses(f.rows[j][1])

\* a run that got rows from its source and started from a bad index file
OnBadIndex == pc # "idle" /\ rows0 # <<>> /\ BadIndex(idx0)

C22_MalformedIndexFatal ==
    /\ [](OnBadIndex =>
            /\ pc \in {"load_index", "exit"}
            /\ pc = "exit" => outcome = "raised"
            /\ ids = <<>>
            /\ indexFile = idx0 /\ dbFile = db0)
    /\ [][OnBadIndex => UNCHANGED <<indexFile, dbFile, csvFile>>]_vars

\* load_index has raised on a bad index file, a table and an export being there
C22_Witness ==
    /\ OnBadIndex /\ pc = "exit" /\ outcome = "raised"
    /\ dbFile.rows # <<>> /\ csvFile.exists

(***************************************************************************)
(* C23. Missing source is fatal before any state is touched: when the      *)
(* source path does not exist, main exits with a non-zero status; the run  *)
(* has loaded nothing from the index file and no step of it changes the    *)
(* index file, the table file, the page or the csv.                        *)
(***************************************************************************)
SourceMissing == pc = "exit" /\ outcome = "not_found"

C23_MissingSourceFatal ==
    /\ [](SourceMissing =>
            /\ ExitStatus(outcome) # 0
            /\ mapping = <<>> /\ max_id = 0 /\ ids = <<>>
            /\ indexFile = idx0 /\ dbFile = db0)
    /\ [][(SourceMissing \/ SourceMissing') =>
            UNCHANGED <<indexFile, dbFile, htmlFile, csvFile>>]_vars

\* a run on a missing source, an index file and a table file being there
C23_Witness == SourceMissing /\ indexFile.rows # <<>> /\ dbFile.rows # <<>>

(***************************************************************************)
(* C24. Empty batch is an error exit: when the source exists and yields no *)
(* rows, main ends with a non-zero exit status and leaves the index file   *)
(* and the table file as they were.                                        *)
(***************************************************************************)
C24_EmptyBatchErrorExit ==
    (pc = "exit" /\ outcome = "no_rows") =>
        /\ ExitStatus(outcome) # 0
        /\ indexFile = idx0 /\ dbFile = db0

(***************************************************************************)
(* C25. Index file key round-trip: for every record save_index has         *)
(* written, make_key of the record's norm_name, birth_year and norm_team   *)
(* columns is the record's key column.                                     *)
(***************************************************************************)
\* save_index has returned
IndexSaved == pc = "update_db"

\* the records of the index file, as csv.DictReader gives them
IndexRecords == ReadDicts(indexFile)

Rebuilt(rec) ==
    make_key(Get(rec, "norm_name"), Get(rec, "birth_year"), Get(rec, "norm_team"))

C25_KeyRoundTrip ==
    IndexSaved =>
        \A j \in 1..Len(IndexRecords) : Rebuilt(IndexRecords[j]) = Get(IndexRecords[j], "key")

(***************************************************************************)
(* C26. Row ordering is total: whatever identifiers the merged table       *)
(* holds, numbers or not, update_database completes and the rows it writes *)
(* are in ascending order of identifier, two numbers compared as numbers,  *)
(* two other identifiers as text.                                          *)
(***************************************************************************)
IsNumber(pid) == pid # None /\ IsDigit(pid)

\* a row with identifier a may come before a row with identifier b
InOrder(a, b) ==
    IF IsNumber(a) /\ IsNumber(b) THEN StrToInt(a) <= StrToInt(b)
    ELSE IF ~IsNumber(a) /\ ~IsNumber(b) THEN a = b \/ StrLess(a, b)
    ELSE TRUE

C26_TotalOrdering ==
    Called =>
        /\ outcome = "completed"
        /\ \A k, m \in 1..Len(After) : k < m => InOrder(RowId(After[k]), RowId(After[m]))

(***************************************************************************)
(* C27. merge_fieldnames result: for any two column lists (empty, None,    *)
(* with repeats, with player_id anywhere) the result has no column twice,  *)
(* has player_id first, holds player_id and the columns of both lists and  *)
(* no other, and lists the other columns in the order in which they first  *)
(* occur in existing followed by incoming.                                 *)
(***************************************************************************)
Merged == mfcall.step >= 1

\* existing followed by incoming, None read as the empty list
Given == OrEmpty(mfcall.existing) \o OrEmpty(mfcall.incoming)

FirstAt(s, x) == CHOOSE p \in 1..Len(s) : s[p] = x /\ \A q \in 1..(p - 1) : s[q] # x

C27_MergeFieldnamesResult ==
    Merged =>
        LET m == mfcall.merged IN
        /\ \A p, q \in 1..Len(m) : m[p] = m[q] => p = q
        /\ m # <<>> /\ m[1] = "player_id"
        /\ ColSet(m) = {"player_id"} \cup ColSet(Given)
        /\ \A p, q \in 2..Len(m) : p < q => FirstAt(Given, m[p]) < FirstAt(Given, m[q])

\* existing is None, incoming repeats a column and has player_id after another column
C27_Witness ==
    /\ Merged /\ mfcall.existing = None /\ mfcall.incoming # None
    /\ \E p, q \in 1..Len(mfcall.incoming) :
          p < q /\ mfcall.incoming[p] = mfcall.incoming[q]
    /\ \E p \in 2..Len(mfcall.incoming) : mfcall.incoming[p] = "player_id"
    /\ Len(mfcall.merged) = 2

(***************************************************************************)
(* C28. merge_fieldnames is idempotent: for all column lists A and B,      *)
(* merge_fieldnames(merge_fieldnames(A, B), A) is merge_fieldnames(A, B).  *)
(***************************************************************************)
C28_MergeFieldnamesIdempotent == mfcall.step = 2 => mfcall.again = mfcall.merged

\* the second call was made on a result of three columns, A and B differing
C28_Witness ==
    /\ mfcall.step = 2 /\ Len(mfcall.again) = 3
    /\ mfcall.existing # mfcall.incoming
    /\ mfcall.existing # None /\ Len(mfcall.existing) >= 2

(***************************************************************************)
(* C29. Counter bound: load_index returns an empty mapping and max_id 0    *)
(* when the index file is absent, and otherwise max_id is the largest      *)
(* identifier of the file; from then on, at every point of the run, max_id *)
(* is at least every identifier of the mapping, so the identifier assigned *)
(* next is not in the mapping.                                             *)
(***************************************************************************)
\* load_index has returned and no row has been resolved yet
JustLoaded == pc = "resolve" /\ i = 1

\* the identifiers an index file holds
FileIds(f) == {ParseInt(f.rows[j][1]) : j \in 1..Len(f.rows)}

\* the largest of a set of identifiers, 0 for none
Largest(S) == IF S = {} THEN 0 ELSE CHOOSE n \in S : \A m \in S : m <= n

C29_CounterBound ==
    /\ JustLoaded =>
          IF ~idx0.exists THEN mapping = <<>> /\ max_id = 0
          ELSE max_id = Largest(FileIds(idx0))
    /\ pc \notin {"idle", "load_index"} =>
          \A e \in Entries(mapping) : e.v <= max_id
    /\ AtNewKey => \A e \in Entries(mapping) : e.v # NewId(max_id)

\* a run that read its counter from the index file and has gone past it
C29_Witness ==
    /\ pc = "export" /\ idx0.rows # <<>>
    /\ max_id > Largest(FileIds(idx0))
    /\ \E e \in Entries(mapping) : e.v = max_id

(***************************************************************************)
(* C30. Index save/load round-trip: save_index writes one record per entry *)
(* of the mapping, in ascending order of identifier, and load_index on the *)
(* file it wrote returns the same mapping and, as max_id, its largest      *)
(* identifier.                                                             *)
(***************************************************************************)
Reloaded == load_index(indexFile)

C30_SaveLoadRoundTrip ==
    IndexSaved =>
        /\ Len(indexFile.rows) = Len(mapping)
        /\ \A j, k \in 1..Len(indexFile.rows) :
              j < k => ParseInt(indexFile.rows[j][1]) < ParseInt(indexFile.rows[k][1])
        /\ \A e \in Entries(mapping) :
              \E j \in 1..Len(indexFile.rows) :
                  indexFile.rows[j][1] = IntToStr(e.v) /\ indexFile.rows[j][2] = e.k
        /\ Reloaded.ok
        /\ Len(Reloaded.mapping) = Len(mapping)
        /\ Entries(Reloaded.mapping) = Entries(mapping)
        /\ Reloaded.max_id = Largest({e.v : e \in Entries(mapping)})

\* save_index has written an index of two entries over an older index file
C30_Witness == IndexSaved /\ Len(mapping) = 2 /\ idx0.rows # <<>> /\ indexFile # idx0

(***************************************************************************)
(* C31. Within one run any two named rows get the same identifier if and   *)
(* only if make_key gives them the same key, whatever rows are resolved    *)
(* between them.                                                           *)
(***************************************************************************)
\* row j of the source has a name get_or_create_player_id accepts
Named(j) == Truthy(RowName(rows0[j]))

C31_SameIdIffSameKey ==
    AllResolved =>
        \A j, k \in 1..Len(rows0) :
            (Named(j) /\ Named(k)) =>
                (ids[j] = ids[k] <=> RowKey(rows0[j]) = RowKey(rows0[k]))

\* the first and the third row have one key, the row between them another
C31_Witness ==
    /\ AllResolved /\ Len(rows0) = 3
    /\ Named(1) /\ Named(2) /\ Named(3)
    /\ rows0[1] # rows0[3]
    /\ ids[1] = ids[3] /\ ids[1] # ids[2]

(***************************************************************************)
(* C32. Nameless row resolution: for a row without a non-empty player and  *)
(* without a non-empty player_name, get_or_create_player_id returns None   *)
(* and leaves the mapping and max_id as they were, main sets no player_id  *)
(* on the row, and the rows after it are still resolved.                   *)
(***************************************************************************)
AtNameless == pc = "resolve" /\ ~Truthy(RowName(rows[i]))

C32_NamelessRow ==
    /\ [][AtNameless =>
            /\ ids' = Append(ids, 0)
            /\ mapping' = mapping /\ max_id' = max_id
            /\ rows' = rows
            /\ i' = i + 1
            /\ pc' = IF i = Len(rows) THEN "export" ELSE "resolve"]_vars
    /\ [](AllResolved =>
            /\ Len(ids) = Len(rows0)
            /\ \A j \in 1..Len(rows0) :
                  IF Named(j) THEN ids[j] > 0 /\ RowId(rows[j]) = IntToStr(ids[j])
                  ELSE ids[j] = 0 /\ rows[j] = rows0[j])

\* a nameless row between two named rows, the later one getting a new identifier
C32_Witness ==
    /\ AllResolved /\ Len(rows0) = 3
    /\ Named(1) /\ ~Named(2) /\ Named(3)
    /\ ids = <<1, 0, 2>>

(***************************************************************************)
(* C37. Every key in the index has a non-empty name component: no entry of *)
(* the mapping and no record of the index file has a key whose name part   *)
(* is the empty string; a row whose name is only whitespace gets no        *)
(* identifier.                                                             *)
(***************************************************************************)
\* the normalized-name part of a key
NamePart(key) == SplitPipe(key, 2)[1]

C37_NonEmptyNameComponent ==
    /\ \A e \in Entries(mapping) : NamePart(e.k) # <<>>
    /\ \A e \in FilePairs(indexFile) : NamePart(e.k) # <<>>
    /\ \A j \in 1..Len(ids) : normalize(RowName(rows0[j])) = <<>> => ids[j] = 0

(***************************************************************************)
(* C38. The index identifier overrides any source-supplied one: every      *)
(* source row with a usable name goes into the master table under the      *)
(* identifier get_or_create_player_id returned for it, whatever player_id  *)
(* the row came with.                                                      *)
(***************************************************************************)
\* the identifiers the table may hold after the run: those stored before, those
\* returned for the named rows, those the nameless rows came with
IdsAllowed ==
    {RowId(Before[k]) : k \in 1..Len(Before)}
        \cup {IntToStr(ids[j]) : j \in {n \in 1..Len(rows0) : Named(n)}}
        \cup {RowId(rows0[j]) : j \in {n \in 1..Len(rows0) : ~Named(n)}}

C38_IndexIdOverrides ==
    /\ pc \in {"update_db", "db_write"} =>
          \A j \in 1..Len(rows0) : Named(j) => RowId(rows[j]) = IntToStr(ids[j])
    /\ Returned =>
          /\ \A j \in 1..Len(rows0) :
                Named(j) => \E k \in 1..Len(After) :
                                /\ RowId(After[k]) = IntToStr(ids[j])
                                /\ Get(After[k], "goals") = Get(rows[Last(Incoming(IntToStr(ids[j])))], "goals")
          /\ \A k \in 1..Len(After) : RowId(After[k]) \in IdsAllowed

\* a named row that came with player_id 7 is in the table under 1, and 7 is not there
C38_Witness ==
    /\ Returned
    /\ \E j \in 1..Len(rows0) : rows0[j] = RowCarried /\ ids[j] = 1
    /\ \E k \in 1..Len(After) : RowId(After[k]) = <<"1">>
    /\ \A k \in 1..Len(After) : RowId(After[k]) # <<"7">>

(***************************************************************************)
(* C35. The table is never ahead of the index: in every state every        *)
(* identifier that has a row in the table file is an identifier of a       *)
(* record of the index file.                                               *)
(***************************************************************************)
\* the identifiers of the records of the index file, as written
IndexIds == {indexFile.rows[j][1] : j \in 1..Len(indexFile.rows)}

C35_TableNotAheadOfIndex ==
    \A k \in 1..Len(After) : RowId(After[k]) \in IndexIds

(***************************************************************************)
(* C36. No uncommitted identifier is ever published: in every state, runs  *)
(* that are interrupted included, every player_id written to the export    *)
(* file is in the index file, with the key of its row.                     *)
(***************************************************************************)
\* the rows of the export, as read back
Exported == ReadDicts(csvFile)

C36_NoUncommittedIdPublished ==
    \A j \in 1..Len(Exported) :
        (Truthy(RowId(Exported[j])) /\ Truthy(RowName(Exported[j]))) =>
            [k |-> RowKey(Exported[j]), v |-> RowId(Exported[j])] \in FilePairs(indexFile)

(***************************************************************************)
(* C34. Database-only mode: with --skip-source-export no step of the run   *)
(* writes the export file (a csv source stays as it was), and the index    *)
(* file and the table file end as the run without the flag leaves them:    *)
(* as the rows, the index file and the table file the run started from     *)
(* determine them, the flag having no part in it.                          *)
(***************************************************************************)
\* what lines 252-272 make of the rows read and the files found, flag or no flag
Expected ==
    LET loaded == load_index(idx0)
        res == ResolveAll(rows0, 1, loaded.mapping, loaded.max_id)
        u == update_database(db0, res.rows, build_fieldnames(base_headers, res.rows))
    IN [index  |-> save_index(res.mapping).file,
        raised |-> u.raised,
        db     |-> IF u.raised THEN db0 ELSE DictWrite(u.ordered_rows, u.fieldnames).file]

C34_DatabaseOnlyMode ==
    /\ [][(skip /\ pc # "idle") => csvFile' = csvFile]_vars
    /\ []((pc = "exit" /\ rows0 # <<>>) =>
            /\ outcome = IF Expected.raised THEN "raised" ELSE "completed"
            /\ indexFile = Expected.index
            /\ dbFile = Expected.db)

\* a completed run with the flag on a csv source: the csv has no player_id column
C34_Witness ==
    /\ pc = "exit" /\ outcome = "completed" /\ skip /\ source = "csv"
    /\ ~InSeq("player_id", csvFile.header)
    /\ indexFile # idx0 /\ dbFile # db0 /\ dbFile.rows # <<>>

\* both invocations executed load_index before either executed save_index, and
\* both have saved
Raced == peer.early /\ peer.late /\ peer.saved.exists /\ MainSaved

\* the identifiers of an index as an invocation saved it are 1, 2, ... in text
CountedFromOne(f) ==
    {e.v : e \in FilePairs(f)} = {IntToStr(n) : n \in 1..Cardinality(FilePairs(f))}

\* C33: concurrent invocations are unsafe.  When two invocations of the
\* pipeline use the same index file and both execute load_index before either
\* executes save_index, each numbers its new keys from the same counter value
\* (here from 1, the index being absent at first), and once both have saved,
\* the index file is exactly what the invocation that saved last wrote: the
\* assignments of the other one are not in it.
C33_ConcurrentUnsafe ==
    Raced =>
        /\ CountedFromOne(savedIdx)
        /\ CountedFromOne(peer.saved)
        /\ indexFile = IF peer.last THEN peer.saved ELSE savedIdx

\* two distinct new keys got the same identifier from the two invocations and
\* the index holds only the assignments of the first invocation, which saved last
C33_Witness ==
    /\ Raced /\ ~peer.last
    /\ \E a \in FilePairs(savedIdx), b \in FilePairs(peer.saved) :
          /\ a.k # b.k /\ a.v = b.v
          /\ \A e \in FilePairs(indexFile) : e.k # b.k
    /\ FilePairs(indexFile) = FilePairs(savedIdx)

=============================================================================
